---- MODULE Spec2Model ----
(***************************************************************************)
(* Model of the fact-checking agent of agent/langChainAgent.py: the        *)
(* LangGraph pipeline classify_claim -> [research_with_tavily ->           *)
(* assess_claim] -> finalize compiled with a MemorySaver checkpointer,     *)
(* the helper gemini_json, and run_agent as called by server.py.           *)
(***************************************************************************)
EXTENDS Integers, Sequences, FiniteSets, TLC

(***************************************************************************)
(* Bounds of the model.                                                    *)
(***************************************************************************)
\* number of run_agent invocations made in all
MaxRuns == 2

\* the requests in flight: the threads of the Flask server that run
\* transcribe, each one invocation of run_agent at a time
Invocations == {1, 2}

\* largest retry budget gemini_json is called with on its own
MaxRetries == 2

\* longest list of raw hits normalize_research is called with on its own
MaxHits == 2

\* largest max_results TavilyClient.search is called with on its own
MaxResults == 2

\* longest list of raw claims extract_claims_with_gemini reads
MaxRaw == 3

\* largest max_claims extract_claims_with_gemini is called with
MaxClaims == 2

\* gemini_json(..., retries: int = 2)
DefaultRetries == 2

\* gemini_verdict_from_evidence: confidence = 2
DefaultConfidence == 2

\* VerdictOut.explanation: Field(..., max_length=600)
MaxExplanation == 600

\* normalize_research: snippet[:600]
MaxSnippet == 600

\* the prompt of classify_claim: reason (string <= 200 chars)
MaxReason == 200

(***************************************************************************)
(* Python values.  A str is a record [id, len]; None is a record of the    *)
(* same shape, so that the two compare.  So are the values of another type *)
(* a JSON document can hold where a str is expected: a number n (len holds *)
(* n) and a list of n elements.                                            *)
(***************************************************************************)
Str(id, n) == [id |-> id, len |-> n]

NoneVal == [id |-> "None", len |-> -1]

Num(n) == [id |-> "number", len |-> n]

ListVal(n) == [id |-> "list", len |-> n]

IsStr(v) == v.id \notin {"None", "number", "list"}

\* v[:n] is defined: a number is not subscriptable
Subscriptable(v) == v.id # "number"

\* v may be a member of a set: a list is not hashable
Hashable(v) == v.id # "list"

EmptyStr == Str("", 0)

\* s[:n]
Slice(s, n) == IF s.len <= n THEN s ELSE Str(s.id, n)

\* truthiness of a str-or-None value: None and "" are falsy
Truthy(s) == s # NoneVal /\ s.len > 0

\* a or b
Or(a, b) == IF Truthy(a) THEN a ELSE b

(***************************************************************************)
(* Request inputs (server.py transcribe): the text and the thread_id,      *)
(* which defaults to "session".                                            *)
(***************************************************************************)
\* each request carries a text of its own: that of the n-th invocation
TextOf(n) == <<"text", n>>

ThreadIds == {"session", "tab-2"}

(***************************************************************************)
(* AgentState: a TypedDict with total=False, so any key may be missing.    *)
(* keys is the set of keys present; a missing key holds the placeholder of *)
(* its type.                                                               *)
(***************************************************************************)
Fields == {"input_text", "is_claim", "claim_reason", "research", "verdict",
           "explanation", "citations"}

AgentState(keys, input_text, is_claim, claim_reason, research, verdict, explanation, citations) ==
  [keys |-> keys, input_text |-> input_text, is_claim |-> is_claim,
   claim_reason |-> claim_reason, research |-> research, verdict |-> verdict,
   explanation |-> explanation, citations |-> citations]

EmptyState ==
  AgentState({}, <<>>, FALSE, NoneVal, <<>>, "", NoneVal, <<>>)

(***************************************************************************)
(* Text of a model response, as a sequence of tokens: whitespace, a        *)
(* code fence, the word json, prose, and DOC, the serialisation of a JSON   *)
(* document.  A reply of the text-generation service is such a text        *)
(* together with the document DOC stands for, or a failure of the call.    *)
(***************************************************************************)
WS == "ws"

\* the three-backquote marker of a fenced code block
FENCE == "fence"

DOC == "DOC"

\* a parsed JSON document: an object with some of the keys the two
\* contracts read (the values are JSON literals), or a non-object
JsonDoc(kind, keys, is_claim, reason, verdict, explanation, citations) ==
  [kind |-> kind, keys |-> keys, is_claim |-> is_claim, reason |-> reason,
   verdict |-> verdict, explanation |-> explanation, citations |-> citations]

NoDoc == JsonDoc("none", {}, "", NoneVal, "", NoneVal, <<>>)

ArrayDoc == JsonDoc("array", {}, "", NoneVal, "", NoneVal, <<>>)

\* {"is_claim": ic, "reason": "filler"} and {"is_claim": ic}
JudgeDoc(ic, withReason) ==
  JsonDoc("object",
          {"is_claim"} \cup (IF withReason THEN {"reason"} ELSE {}),
          ic, IF withReason THEN Str("filler", 6) ELSE NoneVal, "", NoneVal, <<>>)

Citation(title, url) == [title |-> title, url |-> url]

CiteA == Citation(Str("A", 1), Str("http://a", 8))

\* a citation to which the model added a field of its own
CiteExtra ==
  [title |-> Str("X", 1), url |-> Str("http://x", 8), snippet |-> Str("extra", 5)]

\* {"verdict": v, "explanation": e, "citations": c}, keys as given
VerdictDoc(keys, v, e, c) == JsonDoc("object", keys, "", NoneVal, v, e, c)

VerdictKeys == {"verdict", "explanation", "citations"}

ClassifyDocs ==
  { JudgeDoc("true", TRUE), JudgeDoc("false", TRUE), JudgeDoc("false", FALSE),
    JudgeDoc("1", TRUE), JudgeDoc("\"maybe\"", TRUE),
    JsonDoc("object", {"reason"}, "", Str("filler", 6), "", NoneVal, <<>>),
    JsonDoc("object", {"is_claim", "reason"}, "false", Str("long", MaxReason + 1),
            "", NoneVal, <<>>),
    ArrayDoc }

AssessDocs ==
  { VerdictDoc(VerdictKeys, "true", Str("because", 7), <<CiteA>>),
    VerdictDoc(VerdictKeys, "unsubstantiated", Str("because", 7), <<>>),
    VerdictDoc({"verdict", "explanation"}, "false", Str("because", 7), <<>>),
    VerdictDoc(VerdictKeys, "maybe", Str("because", 7), <<>>),
    VerdictDoc({"explanation"}, "", Str("because", 7), <<>>),
    VerdictDoc({"verdict"}, "true", NoneVal, <<>>),
    VerdictDoc(VerdictKeys, "true", Str("long", MaxExplanation + 1), <<>>),
    VerdictDoc(VerdictKeys, "false", Str("because", 7), <<CiteExtra>>),
    ArrayDoc }

\* the ways a model wraps a JSON document into its response text
JsonTexts ==
  { <<DOC>>,
    <<WS, FENCE, "json", WS, DOC, WS, FENCE>> }

\* response texts that are no JSON
ProseTexts ==
  { <<"prose", DOC>>,
    <<FENCE, "json", WS, "prose", FENCE, WS>> }

TextReply(toks, doc) == [kind |-> "text", toks |-> toks, doc |-> doc]

\* generate_content raised, or resp.text raised
FailedReply == [kind |-> "error", toks |-> <<>>, doc |-> NoDoc]

Replies(docs) ==
  {TextReply(t, d) : t \in JsonTexts, d \in docs}
    \cup {TextReply(t, NoDoc) : t \in ProseTexts}
    \cup {FailedReply}

RECURSIVE LStrip(_)
LStrip(toks) ==
  IF toks # <<>> /\ Head(toks) = WS THEN LStrip(Tail(toks)) ELSE toks

RECURSIVE RStrip(_)
RStrip(toks) ==
  IF toks # <<>> /\ toks[Len(toks)] = WS
  THEN RStrip(SubSeq(toks, 1, Len(toks) - 1))
  ELSE toks

\* str.strip()
Strip(toks) == RStrip(LStrip(toks))

\* re.sub of an opening fence (with an optional json tag and the whitespace
\* after it) at the start and of a closing fence (with the whitespace before
\* it) at the end
StripFences(toks) ==
  LET afterOpen ==
        IF toks # <<>> /\ Head(toks) = FENCE
        THEN LET rest == Tail(toks)
             IN  LStrip(IF rest # <<>> /\ Head(rest) = "json" THEN Tail(rest) ELSE rest)
        ELSE toks
  IN  IF afterOpen # <<>> /\ afterOpen[Len(afterOpen)] = FENCE
      THEN RStrip(SubSeq(afterOpen, 1, Len(afterOpen) - 1))
      ELSE afterOpen

\* the text gemini_json hands to json.loads
CleanText(toks) == StripFences(Strip(toks))

\* json.loads accepts exactly one document, surrounded by optional whitespace
JsonParses(toks) == Strip(toks) = <<DOC>>

(***************************************************************************)
(* Errors.  doc is the text a JSONDecodeError carries (its doc attribute), *)
(* field the field a validation error names.                               *)
(***************************************************************************)
Error(kind, doc, field) == [kind |-> kind, doc |-> doc, field |-> field]

NoError == Error("none", <<>>, "")

(***************************************************************************)
(* gemini_json: one pass of its loop, given the reply of the service.      *)
(* messages is the prompt plus the number of "Return ONLY valid JSON"      *)
(* reminders appended to it.                                               *)
(***************************************************************************)
Messages(stage, reminders) == [stage |-> stage, reminders |-> reminders]

\* the reminder appended to the messages of the call before, not to the prompt
Tighten_Accumulating(messages) == Messages(messages.stage, messages.reminders + 1)

\* messages = [.. prompt + "\n\nReturn ONLY valid JSON, no prose."]
Tighten(messages) == Messages(messages.stage, 1)

\* the loop written as range(retries): the last pass is one too early
GeminiAttempt_OneCallShort(reply, attempt, retries) ==
  IF reply.kind = "error"
  THEN [outcome |-> "raise", value |-> NoDoc, error |-> Error("ServiceError", <<>>, "")]
  ELSE LET text == CleanText(reply.toks)
       IN  IF JsonParses(text)
           THEN [outcome |-> "return", value |-> reply.doc, error |-> NoError]
           ELSE IF attempt + 1 >= retries
                THEN [outcome |-> "raise", value |-> NoDoc,
                      error |-> Error("JSONDecodeError", text, "")]
                ELSE [outcome |-> "retry", value |-> NoDoc, error |-> NoError]

\* the call of the service inside the try: its failure is retried like a
\* parse failure
GeminiAttempt_RetriesServiceFailure(reply, attempt, retries) ==
  LET text == CleanText(reply.toks)
  IN  IF reply.kind # "error" /\ JsonParses(text)
      THEN [outcome |-> "return", value |-> reply.doc, error |-> NoError]
      ELSE IF attempt = retries
           THEN [outcome |-> "raise", value |-> NoDoc,
                 error |-> IF reply.kind = "error" THEN Error("ServiceError", <<>>, "")
                           ELSE Error("JSONDecodeError", text, "")]
           ELSE [outcome |-> "retry", value |-> NoDoc, error |-> NoError]

\* the loop written while True: a parse failure is always tried again
GeminiAttempt_NeverGivesUp(reply, attempt, retries) ==
  IF reply.kind = "error"
  THEN [outcome |-> "raise", value |-> NoDoc, error |-> Error("ServiceError", <<>>, "")]
  ELSE LET text == CleanText(reply.toks)
       IN  IF JsonParses(text)
           THEN [outcome |-> "return", value |-> reply.doc, error |-> NoError]
           ELSE [outcome |-> "retry", value |-> NoDoc, error |-> NoError]

GeminiAttempt(reply, attempt, retries) ==
  IF reply.kind = "error"
  THEN [outcome |-> "raise", value |-> NoDoc, error |-> Error("ServiceError", <<>>, "")]
  ELSE LET text == CleanText(reply.toks)
       IN  IF JsonParses(text)
           THEN [outcome |-> "return", value |-> reply.doc, error |-> NoError]
           ELSE IF attempt = retries
                THEN [outcome |-> "raise", value |-> NoDoc,
                      error |-> Error("JSONDecodeError", text, "")]
                ELSE [outcome |-> "retry", value |-> NoDoc, error |-> NoError]

(***************************************************************************)
(* The two pydantic contracts, and the handler classify_claim and          *)
(* assess_claim put around them.                                           *)
(***************************************************************************)
\* a handler written except Exception: every error becomes a RuntimeError
Caught_CatchesAll(e) == Error("RuntimeError", <<>>, e.field)

\* except ValidationError as e: raise RuntimeError(f"... failed validation: {e}")
Caught(e) == IF e.kind = "ValidationError" THEN Error("RuntimeError", <<>>, e.field) ELSE e

\* pydantic's conversion of a JSON literal to bool: booleans, the numbers
\* 0 and 1 and the usual yes/no words are accepted, anything else is not
PydanticBool(literal) ==
  IF literal \in {"true", "1", "\"yes\"", "\"true\""} THEN [ok |-> TRUE, value |-> TRUE]
  ELSE IF literal \in {"false", "0", "\"no\"", "\"false\""} THEN [ok |-> TRUE, value |-> FALSE]
  ELSE [ok |-> FALSE, value |-> FALSE]

Judged(error, is_claim, reason) == [error |-> error, is_claim |-> is_claim, reason |-> reason]

\* is_claim read by Python truthiness instead of validated
ClaimJudge_Truthy(raw) ==
  IF raw.kind # "object" THEN Judged(Error("TypeError", <<>>, ""), FALSE, NoneVal)
  ELSE Judged(NoError,
              "is_claim" \in raw.keys /\ raw.is_claim \notin {"false", "0", "null", "\"\""},
              IF "reason" \in raw.keys THEN raw.reason ELSE NoneVal)

\* ClaimJudge(**raw)
ClaimJudge(raw) ==
  IF raw.kind # "object" THEN Judged(Error("TypeError", <<>>, ""), FALSE, NoneVal)
  ELSE IF "is_claim" \notin raw.keys \/ ~PydanticBool(raw.is_claim).ok
       THEN Judged(Error("ValidationError", <<>>, "is_claim"), FALSE, NoneVal)
       ELSE Judged(NoError, PydanticBool(raw.is_claim).value,
                   IF "reason" \in raw.keys THEN raw.reason ELSE NoneVal)

Verdicts == {"true", "false", "unsubstantiated"}

Assessed(error, verdict, explanation, citations) ==
  [error |-> error, verdict |-> verdict, explanation |-> explanation, citations |-> citations]

\* explanation declared without max_length
VerdictOut_NoMaxLength(raw) ==
  IF raw.kind # "object" THEN Assessed(Error("TypeError", <<>>, ""), "", NoneVal, <<>>)
  ELSE IF "verdict" \notin raw.keys \/ raw.verdict \notin Verdicts
       THEN Assessed(Error("ValidationError", <<>>, "verdict"), "", NoneVal, <<>>)
       ELSE IF "explanation" \notin raw.keys \/ raw.explanation = NoneVal
            THEN Assessed(Error("ValidationError", <<>>, "explanation"), "", NoneVal, <<>>)
            ELSE Assessed(NoError, raw.verdict, raw.explanation,
                          IF "citations" \in raw.keys THEN raw.citations ELSE <<>>)

\* verdict declared str instead of Literal[...]
VerdictOut_AnyVerdict(raw) ==
  IF raw.kind # "object" THEN Assessed(Error("TypeError", <<>>, ""), "", NoneVal, <<>>)
  ELSE IF "verdict" \notin raw.keys
       THEN Assessed(Error("ValidationError", <<>>, "verdict"), "", NoneVal, <<>>)
       ELSE IF "explanation" \notin raw.keys \/ raw.explanation = NoneVal
                 \/ raw.explanation.len > MaxExplanation
            THEN Assessed(Error("ValidationError", <<>>, "explanation"), "", NoneVal, <<>>)
            ELSE Assessed(NoError, raw.verdict, raw.explanation,
                          IF "citations" \in raw.keys THEN raw.citations ELSE <<>>)

\* VerdictOut(**raw)
VerdictOut(raw) ==
  IF raw.kind # "object" THEN Assessed(Error("TypeError", <<>>, ""), "", NoneVal, <<>>)
  ELSE IF "verdict" \notin raw.keys \/ raw.verdict \notin Verdicts
       THEN Assessed(Error("ValidationError", <<>>, "verdict"), "", NoneVal, <<>>)
       ELSE IF "explanation" \notin raw.keys \/ raw.explanation = NoneVal
                 \/ raw.explanation.len > MaxExplanation
            THEN Assessed(Error("ValidationError", <<>>, "explanation"), "", NoneVal, <<>>)
            ELSE Assessed(NoError, raw.verdict, raw.explanation,
                          IF "citations" \in raw.keys THEN raw.citations ELSE <<>>)

(***************************************************************************)
(* Search hits and normalize_research.  A hit is a dict with some of the   *)
(* keys title, url, content, snippet; an evidence item is one with the     *)
(* keys title, url, snippet.                                               *)
(***************************************************************************)
Hit(keys, title, url, content, snippet) ==
  [keys |-> keys, title |-> title, url |-> url, content |-> content, snippet |-> snippet]

\* r.get(key)
HitGet(r, key) ==
  IF key \notin r.keys THEN NoneVal
  ELSE CASE key = "title" -> r.title
         [] key = "url" -> r.url
         [] key = "content" -> r.content
         [] OTHER -> r.snippet

NoTitle == Str("(no title)", 10)

\* the snippet taken from content alone
NormalizeHit_ContentOnly(r) ==
  Hit({"title", "url", "snippet"},
      Or(HitGet(r, "title"), NoTitle),
      Or(HitGet(r, "url"), EmptyStr),
      NoneVal,
      Slice(Or(HitGet(r, "content"), EmptyStr), MaxSnippet))

NormalizeHit(r) ==
  Hit({"title", "url", "snippet"},
      Or(HitGet(r, "title"), NoTitle),
      Or(HitGet(r, "url"), EmptyStr),
      NoneVal,
      Slice(Or(Or(HitGet(r, "content"), HitGet(r, "snippet")), EmptyStr), MaxSnippet))

RECURSIVE DedupByUrl_KeepsLast(_, _)
\* a later item with a url seen before replaces the earlier one
DedupByUrl_KeepsLast(out, seen) ==
  IF out = <<>> THEN <<>>
  ELSE IF \E k \in 2..Len(out) : out[k].url = Head(out).url
       THEN DedupByUrl_KeepsLast(Tail(out), seen)
       ELSE <<Head(out)>> \o DedupByUrl_KeepsLast(Tail(out), seen)

RECURSIVE DedupByUrl(_, _)
DedupByUrl(out, seen) ==
  IF out = <<>> THEN <<>>
  ELSE IF Head(out).url \in seen
       THEN DedupByUrl(Tail(out), seen)
       ELSE <<Head(out)>> \o DedupByUrl(Tail(out), seen \cup {Head(out).url})

\* None passed for items
NoneItems == <<NoneVal>>

\* items or []
OrEmpty(items) == IF items = NoneItems THEN <<>> ELSE items

\* the value the first loop slices for the snippet of r
SnippetSource(r) == Or(Or(HitGet(r, "content"), HitGet(r, "snippet")), EmptyStr)

\* normalize_research(items) raises a TypeError: some hit has a number to
\* slice, or a list to look up in seen
NormalizeRaises(items) ==
  \E k \in 1..Len(OrEmpty(items)) :
    \/ ~Subscriptable(SnippetSource(OrEmpty(items)[k]))
    \/ ~Hashable(Or(HitGet(OrEmpty(items)[k], "url"), EmptyStr))

\* the list normalize_research(items) returns when it does not raise
normalize_research(items) ==
  DedupByUrl([k \in 1..Len(OrEmpty(items)) |-> NormalizeHit(OrEmpty(items)[k])], {})

HitA == Hit({"title", "url", "content"}, Str("A", 1), Str("http://a", 8), Str("text a", 6), NoneVal)

HitA2 == Hit({"title", "url", "snippet"}, Str("A again", 7), Str("http://a", 8), NoneVal, Str("snip", 4))

HitB == Hit({"url", "content"}, NoneVal, Str("http://b", 8), Str("long b", MaxSnippet + 1), NoneVal)

\* hits with fields absent, null, empty or of another type than str
HitNoUrl == Hit({"title"}, Str("C", 1), NoneVal, NoneVal, NoneVal)

HitEmptyUrl == Hit({"title", "url", "snippet"}, Str("D", 1), EmptyStr, NoneVal, Str("snip", 4))

HitNulls == Hit({"title", "url", "content", "snippet"}, NoneVal, NoneVal, NoneVal, NoneVal)

HitNumTitle == Hit({"title", "url", "content"}, Num(7), Str("http://b", 8), Str("", 0), NoneVal)

HitNumContent == Hit({"url", "content"}, NoneVal, Str("http://n", 8), Num(5), NoneVal)

HitListUrl == Hit({"title", "url"}, Str("L", 1), ListVal(1), NoneVal, NoneVal)

RawHits ==
  {HitA, HitA2, HitB, HitNoUrl, HitEmptyUrl, HitNulls, HitNumTitle, HitNumContent, HitListUrl}

\* the lists normalize_research is called with on its own
InputLists == UNION {[1..n -> RawHits] : n \in 0..MaxHits} \cup {NoneItems}

\* what tavily.search gives back: a dict with or without the key results,
\* or an exception
SearchReply(kind, keys, results) == [kind |-> kind, keys |-> keys, results |-> results]

SearchReplies ==
  { SearchReply("error", {}, <<>>),
    SearchReply("ok", {}, <<>>),
    SearchReply("ok", {"results"}, <<HitA, HitA2, HitB>>) }

(***************************************************************************)
(* The nodes of the graph, as functions of the state they are handed.      *)
(***************************************************************************)
\* classify_claim, once gemini_json returned and ClaimJudge accepted
classify_claim(state, judged) ==
  LET set == [state EXCEPT
                !.keys = @ \cup {"is_claim", "claim_reason"},
                !.is_claim = judged.is_claim,
                !.claim_reason = judged.reason]
  IN  IF ~judged.is_claim
      THEN [set EXCEPT
              !.keys = @ \cup {"verdict", "explanation"},
              !.verdict = "not_a_claim",
              !.explanation = judged.reason]
      ELSE set

\* the node also dropping the citations of the state
research_with_tavily_DropsCitations(state, res) ==
  [state EXCEPT
     !.keys = (@ \cup {"research"}) \ {"citations"},
     !.research = normalize_research(IF "results" \in res.keys THEN res.results ELSE <<>>),
     !.citations = <<>>]

\* research_with_tavily, once tavily.search returned res
research_with_tavily(state, res) ==
  [state EXCEPT
     !.keys = @ \cup {"research"},
     !.research = normalize_research(IF "results" \in res.keys THEN res.results ELSE <<>>)]

\* state.get("research", [])
GetResearch(state) == IF "research" \in state.keys THEN state.research ELSE <<>>

\* [{"title": r.get("title", ""), "url": r.get("url", "")} for r in research]
ResearchCitations(research) ==
  [k \in 1..Len(research) |->
     Citation(IF "title" \in research[k].keys THEN research[k].title ELSE EmptyStr,
              IF "url" \in research[k].keys THEN research[k].url ELSE EmptyStr)]

\* the validated citations stored as they are, the research never consulted
assess_claim_NoFallback(state, verdict) ==
  [state EXCEPT
     !.keys = @ \cup {"verdict", "explanation", "citations"},
     !.verdict = verdict.verdict,
     !.explanation = verdict.explanation,
     !.citations = verdict.citations]

\* assess_claim, once gemini_json returned and VerdictOut accepted
assess_claim(state, verdict) ==
  [state EXCEPT
     !.keys = @ \cup {"verdict", "explanation", "citations"},
     !.verdict = verdict.verdict,
     !.explanation = verdict.explanation,
     !.citations = IF verdict.citations # <<>> THEN verdict.citations
                   ELSE ResearchCitations(GetResearch(state))]

finalize(state) == state

\* the router ignoring the classification
route_from_classify_AlwaysResearch(state) == "research_with_tavily"

route_from_classify(state) ==
  IF "is_claim" \in state.keys /\ state.is_claim THEN "research_with_tavily" ELSE "finalize"

\* the edge out of research_with_tavily drawn to finalize
Edge_SkipsAssess(node, state) ==
  CASE node = "classify_claim" -> route_from_classify(state)
    [] node = "research_with_tavily" -> "finalize"
    [] node = "assess_claim" -> "finalize"
    [] OTHER -> "done"

\* the edges of the graph: the node that follows node when it returned
\* state (done stands for END)
Edge(node, state) ==
  CASE node = "classify_claim" -> route_from_classify(state)
    [] node = "research_with_tavily" -> "assess_claim"
    [] node = "assess_claim" -> "finalize"
    [] OTHER -> "done"

(***************************************************************************)
(* run_agent's projection of the final state into the response.  A key the *)
(* final state lacks is read as None.                                      *)
(***************************************************************************)
Response(status, verdict, text, citations) ==
  [status |-> status, verdict |-> verdict, text |-> text, citations |-> citations]

NoResponse == Response("none", "", NoneVal, <<>>)

\* reason of a not_a_claim response, explanation of a fact_checked one
Project(final_state) ==
  LET explanation == IF "explanation" \in final_state.keys THEN final_state.explanation ELSE NoneVal
  IN  IF "verdict" \in final_state.keys /\ final_state.verdict = "not_a_claim"
      THEN Response("not_a_claim", "", explanation, <<>>)
      ELSE Response("fact_checked",
                    IF "verdict" \in final_state.keys THEN final_state.verdict ELSE "None",
                    explanation,
                    IF "citations" \in final_state.keys THEN final_state.citations ELSE <<>>)

(***************************************************************************)
(* The program: run_agent invocations over the one compiled GRAPH and its  *)
(* one MemorySaver.                                                        *)
(*   pc        where each request thread is: idle, in one of the four      *)
(*             nodes, done (run_agent returned) or failed (it raised)      *)
(*   run       the number of its invocation, counting all invocations in   *)
(*             the order they start; started is the number made so far     *)
(*   text, thread_id   the arguments of the invocation                     *)
(*   state     the AgentState the invocation's graph run holds             *)
(*   attempt, messages   the locals of the gemini_json call in progress    *)
(*   raw       the document gemini_json returned to the node that ran last *)
(*   memory    the MemorySaver: the last checkpoint of each thread_id      *)
(*   response, error   what run_agent returned or raised                   *)
(*   raised    the error as it was first raised inside the node            *)
(* History, not read by the program:                                       *)
(*   resp      the raw text of the response on which gemini_json raised    *)
(*   calls     the model calls of the gemini_json call in progress, or of  *)
(*             the last one, until the next node runs                      *)
(*   trace     the nodes that returned and the search calls made, in order *)
(*   alone     the state the same replies produce from a state seeded with *)
(*             input_text only                                             *)
(*   own       the keys of state the invocation itself has written         *)
(*   borrowed  the keys of state whose value was written by an invocation  *)
(*             that was in progress when this one loaded it                *)
(*   writer    for each thread_id, the invocation (its number) that saved  *)
(*             the checkpoint                                              *)
(***************************************************************************)
VARIABLES pc, run, started, text, thread_id, state, attempt, messages, raw, resp, memory,
          response, error, raised, calls, trace, alone, own, borrowed, writer

(***************************************************************************)
(* gemini_json called on its own, with any retry budget.                   *)
(*   g_pc      idle, loop (in its for loop), returned or raised            *)
(*   g_retries, g_attempt, g_messages   its parameter and locals           *)
(*   g_value, g_error   what it returned or raised                         *)
(*   g_sent    history: for each call of generate_content, the number of   *)
(*             reminders in the prompt sent and the raw text received      *)
(***************************************************************************)
VARIABLES g_pc, g_retries, g_attempt, g_messages, g_value, g_error, g_sent

gvars == <<g_pc, g_retries, g_attempt, g_messages, g_value, g_error, g_sent>>

(***************************************************************************)
(* normalize_research called on its own.                                   *)
(*   n_pc      idle, returned, raised, or again (called once more on the   *)
(*             list it returned)                                           *)
(*   n_items   its argument                                                *)
(*   n_out     the list it returned                                        *)
(*   n_again   the list it returned when called on n_out                   *)
(*   n_error   what it raised                                              *)
(***************************************************************************)
VARIABLES n_pc, n_items, n_out, n_again, n_error

nvars == <<n_pc, n_items, n_out, n_again, n_error>>

(***************************************************************************)
(* TavilyIO.py: TavilyClient.search called on its own.                     *)
(*   s_pc      idle, mcp (in _mcp_search), rest (in _rest_search),         *)
(*             returned or raised                                          *)
(*   s_mcp     _mcp_available(): the MCP client is installed and           *)
(*             TAVILY_MCP_CMD is set                                       *)
(*   s_key     TAVILY_API_KEY is set                                       *)
(*   s_query, s_max   the arguments query and max_results                  *)
(*   s_result, s_error   what search returned or raised                    *)
(*   s_warned  the warning "MCP search failed" was logged                  *)
(*   s_log     history: the attempts made and how each ended               *)
(*   s_reply   history: the results of the reply search returned from      *)
(***************************************************************************)
VARIABLES s_pc, s_mcp, s_key, s_query, s_max, s_result, s_error, s_warned, s_log, s_reply

svars == <<s_pc, s_mcp, s_key, s_query, s_max, s_result, s_error, s_warned, s_log, s_reply>>

(***************************************************************************)
(* TavilyIO.py: the Verdict of gemini_verdict_from_evidence and the        *)
(* response it is read from.                                               *)
(***************************************************************************)
Verdict(claim_id, label, confidence, rationale, citations) ==
  [claim_id |-> claim_id, label |-> label, confidence |-> confidence,
   rationale |-> rationale, citations |-> citations]

NoVerdict == Verdict("", "", 0, "", <<>>)

\* label = "Uncertain"; confidence = 2; rationale = "Insufficient data.";
\* citations = []
DefaultVerdict(claim_id) ==
  Verdict(claim_id, "Uncertain", DefaultConfidence, "Insufficient data.", <<>>)

\* what generate_content answers with.  kind is "error" (the call raises),
\* "blocked" (the response has no text: reading resp.text raises),
\* "not json" (json.loads raises), "array" (JSON that is no object, so
\* data.get raises) or "object"; keys are the keys of the object
VerdictReply(kind, keys, label, confidence, rationale, citations) ==
  [kind |-> kind, keys |-> keys, label |-> label, confidence |-> confidence,
   rationale |-> rationale, citations |-> citations]

NoVerdictReply == VerdictReply("error", {}, "", NoneVal, "", <<>>)

\* a citation of the verdict response
Quote == [url |-> "http://a", title |-> "A", quote |-> "span"]

\* the values of confidence: a number, a numeral in a string, a word, null
Confidences == {Num(4), Str("4", 1), Str("high", 4), NoneVal}

VerdictReplies ==
  {VerdictReply(kind, {}, "", NoneVal, "", <<>>) :
     kind \in {"error", "blocked", "not json", "array"}}
    \cup {VerdictReply("object", keys, label, confidence, "short text", citations) :
            keys \in SUBSET {"label", "confidence", "rationale", "citations"},
            label \in {"Supported", "Refuted"},
            confidence \in Confidences,
            citations \in {<<>>, <<Quote>>}}

\* int(v) returns: v is a number, or a str that holds a numeral
IntConvertible(v) == v.id = "number" \/ v = Str("4", 1)

\* int(v)
Int_(v) == IF v.id = "number" THEN v.len ELSE 4

\* the try block of gemini_verdict_from_evidence, assignment by assignment,
\* and the Verdict built after it
VerdictFromReply(claim_id, reply) ==
  LET default == DefaultVerdict(claim_id)
      \* label = data.get("label", label)
      v1 == IF "label" \in reply.keys
            THEN [default EXCEPT !.label = reply.label] ELSE default
      \* data.get("confidence", confidence)
      c == IF "confidence" \in reply.keys THEN reply.confidence ELSE Num(default.confidence)
      \* confidence = int(...)
      v2 == [v1 EXCEPT !.confidence = Int_(c)]
      \* rationale = data.get("rationale", rationale)
      v3 == IF "rationale" \in reply.keys
            THEN [v2 EXCEPT !.rationale = reply.rationale] ELSE v2
      \* citations = data.get("citations", citations)
      v4 == IF "citations" \in reply.keys
            THEN [v3 EXCEPT !.citations = reply.citations] ELSE v3
  IN  IF reply.kind # "object" THEN default
      ELSE IF ~IntConvertible(c) THEN v1
      ELSE v4

(***************************************************************************)
(* TavilyIO.py: the claims of extract_claims_with_gemini and the evidence  *)
(* of retrieve_evidence_for_claims.                                        *)
(***************************************************************************)
\* Claim(id=..., text=...); topic and time_context are left out
Claim(id, t) == [id |-> id, text |-> t]

\* the ids of the raw claims; "" is an id that is missing, null or empty
RawIds == {"", "c1", "c2", "c3", "x"}

\* the lists of raw claims: the text of the k-th is its own
RawLists ==
  UNION {{[k \in 1..n |-> Claim(ids[k], <<"claim", k>>)] : ids \in [1..n -> RawIds]} :
           n \in 0..MaxRaw}

\* what generate_content answers with: text that is not JSON, JSON that is
\* no object, or an object whose key claims holds a list of raw claims
ClaimsReply(kind, claims) == [kind |-> kind, claims |-> claims]

ClaimsReplies ==
  {ClaimsReply("not json", <<>>), ClaimsReply("array", <<>>)}
    \cup {ClaimsReply("object", l) : l \in RawLists}

\* f"c{i}"
Positional(i) == "c" \o ToString(i)

\* the loop for i, c in enumerate(raw[:max_claims], start=1), from entry i
RECURSIVE ExtractFrom(_, _, _, _)
ExtractFrom(raws, i, seen, claims) ==
  IF i > Len(raws) THEN claims
  ELSE LET \* cid = str(c.get("id") or f"c{i}")
           first == IF raws[i].id # "" THEN raws[i].id ELSE Positional(i)
           \* if cid in seen: cid = f"c{i}"
           cid == IF first \in seen THEN Positional(i) ELSE first
       IN  ExtractFrom(raws, i + 1, seen \cup {cid}, Append(claims, Claim(cid, raws[i].text)))

extract_claims_with_gemini(reply, max_claims) ==
  IF reply.kind # "object" THEN <<>>
  ELSE ExtractFrom(SubSeq(reply.claims, 1,
                          IF Len(reply.claims) < max_claims THEN Len(reply.claims) ELSE max_claims),
                   1, {}, <<>>)

\* evidence = {}
NoEvidence == <<>>

\* the hits client.search returns for build_fact_question(claim)
HitsFor(claim) == <<"hits", claim.text>>

(***************************************************************************)
(* TavilyIO.py: gemini_verdict_from_evidence called on its own.            *)
(*   j_pc       idle, returned or raised                                   *)
(*   j_claim    claim.id                                                   *)
(*   j_reply    what generate_content answered                             *)
(*   j_verdict  the Verdict returned                                       *)
(***************************************************************************)
VARIABLES j_pc, j_claim, j_reply, j_verdict

jvars == <<j_pc, j_claim, j_reply, j_verdict>>

(***************************************************************************)
(* TavilyIO.py: extract_claims_with_gemini followed by                     *)
(* retrieve_evidence_for_claims on the claims it returned.                 *)
(*   c_pc        idle, searching (in the loop of                           *)
(*               retrieve_evidence_for_claims), returned or raised         *)
(*   c_max       the argument max_claims                                   *)
(*   c_reply     what generate_content answered                            *)
(*   c_claims    the claims extract_claims_with_gemini returned            *)
(*   c_k         the number of claims searched for so far                  *)
(*   c_evidence  the dict evidence                                         *)
(***************************************************************************)
VARIABLES c_pc, c_max, c_reply, c_claims, c_k, c_evidence

cvars == <<c_pc, c_max, c_reply, c_claims, c_k, c_evidence>>

tvars == <<svars, jvars, cvars>>

pvars == <<pc, run, started, text, thread_id, state, attempt, messages, raw, resp, memory,
           response, error, raised, calls, trace, alone, own, borrowed, writer>>

vars == <<pvars, gvars, nvars, tvars>>

Nodes == {"classify_claim", "research_with_tavily", "assess_claim", "finalize"}

Active(i) == pc[i] \in Nodes

\* one call of generate_content: the node that made it, the number of
\* reminders in the prompt it sent and how gemini_json went on after it
Call(node, reminders, outcome) == [node |-> node, reminders |-> reminders, outcome |-> outcome]

\* the history of the gemini_json call, with one more call
Called(i, call) == IF attempt[i] = 0 THEN <<call>> ELSE Append(calls[i], call)

\* init_state = {"input_text": text}, written over the channels GRAPH.invoke
\* restored from the thread's checkpoint
Seed(checkpoint, t) ==
  [checkpoint EXCEPT !.keys = @ \cup {"input_text"}, !.input_text = t]

\* the keys a node sets in the state new it returns
Written(node, new) ==
  CASE node = "classify_claim" ->
         {"is_claim", "claim_reason"}
           \cup (IF new.is_claim THEN {} ELSE {"verdict", "explanation"})
    [] node = "research_with_tavily" -> {"research"}
    [] node = "assess_claim" -> {"verdict", "explanation", "citations"}
    [] OTHER -> {}

Init ==
  /\ pc = [i \in Invocations |-> "idle"]
  /\ run = [i \in Invocations |-> 0]
  /\ started = 0
  /\ text = [i \in Invocations |-> <<>>]
  /\ thread_id = [i \in Invocations |-> "session"]
  /\ state = [i \in Invocations |-> EmptyState]
  /\ attempt = [i \in Invocations |-> 0]
  /\ messages = [i \in Invocations |-> Messages("", 0)]
  /\ raw = [i \in Invocations |-> NoDoc]
  /\ resp = [i \in Invocations |-> <<>>]
  /\ memory = [t \in ThreadIds |-> EmptyState]
  /\ response = [i \in Invocations |-> NoResponse]
  /\ error = [i \in Invocations |-> NoError]
  /\ raised = [i \in Invocations |-> NoError]
  /\ calls = [i \in Invocations |-> <<>>]
  /\ trace = [i \in Invocations |-> <<>>]
  /\ alone = [i \in Invocations |-> EmptyState]
  /\ own = [i \in Invocations |-> {}]
  /\ borrowed = [i \in Invocations |-> {}]
  /\ writer = [t \in ThreadIds |-> 0]
  /\ g_pc = "idle"
  /\ g_retries = 0
  /\ g_attempt = 0
  /\ g_messages = Messages("", 0)
  /\ g_value = NoDoc
  /\ g_error = NoError
  /\ g_sent = <<>>
  /\ n_pc = "idle"
  /\ n_items = <<>>
  /\ n_out = <<>>
  /\ n_again = <<>>
  /\ n_error = NoError
  /\ s_pc = "idle"
  /\ s_mcp = FALSE
  /\ s_key = FALSE
  /\ s_query = ""
  /\ s_max = 0
  /\ s_result = <<>>
  /\ s_error = NoError
  /\ s_warned = FALSE
  /\ s_log = <<>>
  /\ s_reply = <<>>
  /\ j_pc = "idle"
  /\ j_claim = ""
  /\ j_reply = NoVerdictReply
  /\ j_verdict = NoVerdict
  /\ c_pc = "idle"
  /\ c_max = 0
  /\ c_reply = ClaimsReply("not json", <<>>)
  /\ c_claims = <<>>
  /\ c_k = 0
  /\ c_evidence = NoEvidence

\* the request thread runs no invocation
Free(i) == pc[i] \in {"idle", "done", "failed"}

\* transcribe calling run_agent, up to the first node: the thread's
\* checkpoint is loaded, the input is written over it and saved as the input
\* checkpoint.  The request is served by the first free request thread.
RunAgent(i) ==
  /\ Free(i)
  /\ \A j \in Invocations : j < i => ~Free(j)
  /\ started < MaxRuns
  /\ started' = started + 1
  /\ run' = [run EXCEPT ![i] = started + 1]
  /\ \E tid \in ThreadIds :
       LET t == TextOf(started + 1)
           seeded == Seed(memory[tid], t)
           lender == {j \in Invocations : j # i /\ Active(j) /\ run[j] = writer[tid]}
       IN  /\ text' = [text EXCEPT ![i] = t]
           /\ thread_id' = [thread_id EXCEPT ![i] = tid]
           /\ state' = [state EXCEPT ![i] = seeded]
           /\ memory' = [memory EXCEPT ![tid] = seeded]
           /\ writer' = [writer EXCEPT ![tid] = started + 1]
           /\ alone' = [alone EXCEPT ![i] = Seed(EmptyState, t)]
           /\ borrowed' = [borrowed EXCEPT ![i] =
                             UNION {own[j] : j \in lender} \ {"input_text"}]
  /\ own' = [own EXCEPT ![i] = {"input_text"}]
  /\ pc' = [pc EXCEPT ![i] = "classify_claim"]
  /\ attempt' = [attempt EXCEPT ![i] = 0]
  /\ messages' = [messages EXCEPT ![i] = Messages("classify_claim", 0)]
  /\ raw' = [raw EXCEPT ![i] = NoDoc]
  /\ calls' = [calls EXCEPT ![i] = <<>>]
  /\ resp' = [resp EXCEPT ![i] = <<>>]
  /\ response' = [response EXCEPT ![i] = NoResponse]
  /\ error' = [error EXCEPT ![i] = NoError]
  /\ raised' = [raised EXCEPT ![i] = NoError]
  /\ trace' = [trace EXCEPT ![i] = <<>>]
  /\ UNCHANGED <<gvars, nvars, tvars>>

\* the node raised e, for an error first raised as thrown: GRAPH.invoke and
\* run_agent raise e, nothing is saved
Raise(i, e, thrown) ==
  /\ pc' = [pc EXCEPT ![i] = "failed"]
  /\ error' = [error EXCEPT ![i] = e]
  /\ raised' = [raised EXCEPT ![i] = thrown]
  /\ UNCHANGED <<state, memory, writer, alone, own, borrowed, attempt, messages>>

\* the node returned new: the step's checkpoint is saved and the graph
\* moves to the node next
Step(i, new, newAlone, next) ==
  /\ state' = [state EXCEPT ![i] = new]
  /\ memory' = [memory EXCEPT ![thread_id[i]] = new]
  /\ writer' = [writer EXCEPT ![thread_id[i]] = run[i]]
  /\ own' = [own EXCEPT ![i] = @ \cup Written(pc[i], new)]
  /\ borrowed' = [borrowed EXCEPT ![i] = @ \ Written(pc[i], new)]
  /\ alone' = [alone EXCEPT ![i] = newAlone]
  /\ pc' = [pc EXCEPT ![i] = next]
  /\ attempt' = [attempt EXCEPT ![i] = 0]
  /\ messages' = [messages EXCEPT ![i] = Messages(next, 0)]
  /\ UNCHANGED <<error, raised>>

\* gemini_json goes round its loop once more
Retry(i) ==
  /\ attempt' = [attempt EXCEPT ![i] = @ + 1]
  /\ messages' = [messages EXCEPT ![i] = Tighten(@)]
  /\ UNCHANGED <<pc, state, memory, writer, alone, own, borrowed, error, raised>>

\* classify_claim: one model call of its gemini_json and what follows it
ClassifyClaim(i) ==
  /\ pc[i] = "classify_claim"
  /\ \E reply \in Replies(ClassifyDocs) :
       LET r == GeminiAttempt(reply, attempt[i], DefaultRetries)
           judged == ClaimJudge(r.value)
           new == classify_claim(state[i], judged)
           ok == r.outcome = "return" /\ judged.error = NoError
       IN  /\ calls' = [calls EXCEPT ![i] =
                          Called(i, Call("classify_claim", messages[i].reminders, r.outcome))]
           /\ resp' = [resp EXCEPT ![i] = IF r.outcome = "raise" THEN reply.toks ELSE <<>>]
           /\ raw' = [raw EXCEPT ![i] = IF r.outcome = "return" THEN r.value ELSE @]
           /\ trace' = [trace EXCEPT ![i] = IF ok THEN Append(@, "classify_claim") ELSE @]
           /\ CASE r.outcome = "retry" -> Retry(i)
                [] r.outcome = "raise" -> Raise(i, r.error, r.error)
                [] OTHER ->
                     IF judged.error # NoError
                     THEN Raise(i, Caught(judged.error), judged.error)
                     ELSE Step(i, new, classify_claim(alone[i], judged),
                               Edge("classify_claim", new))
  /\ UNCHANGED <<run, started, text, thread_id, response, gvars, nvars, tvars>>

\* the entry of trace for a call of tavily.search
Searched(res) == IF res.kind = "error" THEN "tavily.search raised" ELSE "tavily.search"

\* the search wrapped in a handler that goes on without results
ResearchWithTavily_SwallowsFailure(i) ==
  /\ pc[i] = "research_with_tavily"
  /\ \E res \in SearchReplies :
       LET got == IF res.kind = "error" THEN SearchReply("ok", {}, <<>>) ELSE res
       IN  /\ Step(i, research_with_tavily(state[i], got),
                   research_with_tavily(alone[i], got),
                   Edge("research_with_tavily", research_with_tavily(state[i], got)))
           /\ trace' = [trace EXCEPT ![i] = @ \o <<Searched(res), "research_with_tavily">>]
  /\ raw' = [raw EXCEPT ![i] = NoDoc]
  /\ calls' = [calls EXCEPT ![i] = <<>>]
  /\ UNCHANGED <<run, started, text, thread_id, resp, response, gvars, nvars, tvars>>

\* research_with_tavily: its one search call and what follows it
ResearchWithTavily(i) ==
  /\ pc[i] = "research_with_tavily"
  /\ \E res \in SearchReplies :
       IF res.kind = "error"
       THEN /\ Raise(i, Error("SearchError", <<>>, ""), Error("SearchError", <<>>, ""))
            /\ trace' = [trace EXCEPT ![i] = Append(@, Searched(res))]
       ELSE /\ Step(i, research_with_tavily(state[i], res),
                    research_with_tavily(alone[i], res),
                    Edge("research_with_tavily", research_with_tavily(state[i], res)))
            /\ trace' = [trace EXCEPT ![i] = @ \o <<Searched(res), "research_with_tavily">>]
  /\ raw' = [raw EXCEPT ![i] = NoDoc]
  /\ calls' = [calls EXCEPT ![i] = <<>>]
  /\ UNCHANGED <<run, started, text, thread_id, resp, response, gvars, nvars, tvars>>

\* assess_claim: one model call of its gemini_json and what follows it
AssessClaim(i) ==
  /\ pc[i] = "assess_claim"
  /\ \E reply \in Replies(AssessDocs) :
       LET r == GeminiAttempt(reply, attempt[i], DefaultRetries)
           verdict == VerdictOut(r.value)
           ok == r.outcome = "return" /\ verdict.error = NoError
       IN  /\ calls' = [calls EXCEPT ![i] =
                          Called(i, Call("assess_claim", messages[i].reminders, r.outcome))]
           /\ resp' = [resp EXCEPT ![i] = IF r.outcome = "raise" THEN reply.toks ELSE <<>>]
           /\ raw' = [raw EXCEPT ![i] = IF r.outcome = "return" THEN r.value ELSE @]
           /\ trace' = [trace EXCEPT ![i] = IF ok THEN Append(@, "assess_claim") ELSE @]
           /\ CASE r.outcome = "retry" -> Retry(i)
                [] r.outcome = "raise" -> Raise(i, r.error, r.error)
                [] OTHER ->
                     IF verdict.error # NoError
                     THEN Raise(i, Caught(verdict.error), verdict.error)
                     ELSE Step(i, assess_claim(state[i], verdict),
                               assess_claim(alone[i], verdict),
                               Edge("assess_claim", assess_claim(state[i], verdict)))
  /\ UNCHANGED <<run, started, text, thread_id, response, gvars, nvars, tvars>>

\* finalize, the end of GRAPH.invoke and run_agent's return
Finalize(i) ==
  /\ pc[i] = "finalize"
  /\ Step(i, finalize(state[i]), finalize(alone[i]), Edge("finalize", finalize(state[i])))
  /\ trace' = [trace EXCEPT ![i] = Append(@, "finalize")]
  /\ response' = [response EXCEPT ![i] = Project(finalize(state[i]))]
  /\ raw' = [raw EXCEPT ![i] = NoDoc]
  /\ calls' = [calls EXCEPT ![i] = <<>>]
  /\ UNCHANGED <<run, started, text, thread_id, resp, gvars, nvars, tvars>>

Next ==
  \E i \in Invocations :
    \/ RunAgent(i)
    \/ ClassifyClaim(i)
    \/ ResearchWithTavily(i)
    \/ AssessClaim(i)
    \/ Finalize(i)

Spec == Init /\ [][Next]_vars

\* the step of the node invocation i is in
Advance(i) ==
  ClassifyClaim(i) \/ ResearchWithTavily(i) \/ AssessClaim(i) \/ Finalize(i)

\* every call of the model and of the search returns or fails, and the
\* request thread goes on: the node an invocation is in takes its step
SpecLive == Spec /\ \A i \in Invocations : WF_vars(Advance(i))

(***************************************************************************)
(* gemini_json on its own.                                                 *)
(***************************************************************************)
\* response texts json.loads accepts once cleaned
GoodTexts ==
  JsonTexts \cup { <<WS, DOC, WS>>, <<FENCE, WS, DOC, FENCE>>, <<FENCE, "json", DOC>> }

\* response texts it rejects: empty, prose, a fence with another tag, two
\* documents
BadTexts ==
  ProseTexts \cup { <<>>, <<FENCE, "prose", WS, DOC, WS, FENCE>>, <<DOC, DOC>> }

GeminiReplies ==
  {TextReply(t, d) : t \in GoodTexts, d \in {ArrayDoc, JudgeDoc("true", TRUE)}}
    \cup {TextReply(t, NoDoc) : t \in BadTexts}
    \cup {FailedReply}

Sent(reminders, reply) == [reminders |-> reminders, kind |-> reply.kind, toks |-> reply.toks]

\* gemini_json(model, prompt, temperature, retries) up to its loop
GeminiJson ==
  /\ g_pc = "idle"
  /\ \E r \in 0..MaxRetries : g_retries' = r
  /\ g_pc' = "loop"
  /\ g_attempt' = 0
  /\ g_messages' = Messages("prompt", 0)
  /\ UNCHANGED <<g_value, g_error, g_sent, pvars, nvars, tvars>>

\* one pass of the loop: the call of generate_content and what follows it
GenerateContent ==
  /\ g_pc = "loop"
  /\ \E reply \in GeminiReplies :
       LET r == GeminiAttempt(reply, g_attempt, g_retries)
       IN  /\ g_sent' = Append(g_sent, Sent(g_messages.reminders, reply))
           /\ CASE r.outcome = "retry" ->
                     /\ g_attempt' = g_attempt + 1
                     /\ g_messages' = Tighten(g_messages)
                     /\ UNCHANGED <<g_pc, g_value, g_error>>
                [] r.outcome = "raise" ->
                     /\ g_pc' = "raised"
                     /\ g_error' = r.error
                     /\ UNCHANGED <<g_attempt, g_messages, g_value>>
                [] OTHER ->
                     /\ g_pc' = "returned"
                     /\ g_value' = r.value
                     /\ UNCHANGED <<g_attempt, g_messages, g_error>>
  /\ UNCHANGED <<g_retries, pvars, nvars, tvars>>

NextGemini == GeminiJson \/ GenerateContent

SpecGemini == Init /\ [][NextGemini]_vars

(***************************************************************************)
(* normalize_research on its own.                                          *)
(***************************************************************************)
\* normalize_research(items)
NormalizeResearch ==
  /\ n_pc = "idle"
  /\ \E items \in InputLists :
       /\ n_items' = items
       /\ IF NormalizeRaises(items)
          THEN /\ n_pc' = "raised"
               /\ n_error' = Error("TypeError", <<>>, "")
               /\ UNCHANGED n_out
          ELSE /\ n_pc' = "returned"
               /\ n_out' = normalize_research(items)
               /\ UNCHANGED n_error
  /\ UNCHANGED <<n_again, pvars, gvars, tvars>>

\* normalize_research(normalize_research(items))
NormalizeAgain ==
  /\ n_pc = "returned"
  /\ IF NormalizeRaises(n_out)
     THEN /\ n_pc' = "raised"
          /\ n_error' = Error("TypeError", <<>>, "")
          /\ UNCHANGED n_again
     ELSE /\ n_pc' = "again"
          /\ n_again' = normalize_research(n_out)
          /\ UNCHANGED n_error
  /\ UNCHANGED <<n_items, n_out, pvars, gvars, tvars>>

NextNormalize == NormalizeResearch \/ NormalizeAgain

SpecNormalize == Init /\ [][NextNormalize]_vars

(***************************************************************************)
(* TavilyClient.search on its own.                                         *)
(***************************************************************************)
SearchResult(title, url, content) == [title |-> title, url |-> url, content |-> content]

\* SearchResult(title=r.get("title", "untitled"), url=r.get("url", ""),
\*              content=r.get("content") or ... or r.get("snippet") or None)
ToSearchResult(r) ==
  SearchResult(IF "title" \in r.keys THEN r.title ELSE Str("untitled", 8),
               IF "url" \in r.keys THEN r.url ELSE EmptyStr,
               Or(Or(HitGet(r, "content"), HitGet(r, "snippet")), NoneVal))

\* the SearchResults built from results[:max_results]
FirstResults(results, max_results) ==
  [k \in 1..(IF Len(results) < max_results THEN Len(results) ELSE max_results) |->
     ToSearchResult(results[k])]

Queries == {"q1", "q2"}

\* the result lists a Tavily server answers with
ResultLists == UNION {[1..n -> {HitA, HitA2, HitB}] : n \in 0..(MaxResults + 1)}

\* what the MCP server or the REST endpoint does: it fails (the server does
\* not start, it has no search tool, the HTTP status is an error), answers
\* with something that holds no results, or answers with results
ServerReply(kind, results) == [kind |-> kind, results |-> results]

ServerReplies ==
  {ServerReply("error", <<>>), ServerReply("no results key", <<>>)}
    \cup {ServerReply("ok", l) : l \in ResultLists}

\* TavilyClient(...).search(query, max_results=...) up to its first attempt
Search ==
  /\ s_pc = "idle"
  /\ \E mcp \in BOOLEAN, key \in BOOLEAN, q \in Queries, m \in 1..MaxResults :
       /\ s_mcp' = mcp
       /\ s_key' = key
       /\ s_query' = q
       /\ s_max' = m
       /\ s_pc' = IF mcp THEN "mcp" ELSE "rest"
  /\ UNCHANGED <<s_result, s_error, s_warned, s_log, s_reply, pvars, gvars, nvars, jvars, cvars>>

\* an MCP answer without results sent on to REST like a failure
McpSearch_EmptyFallsBack ==
  /\ s_pc = "mcp"
  /\ \E reply \in ServerReplies :
       IF reply.kind = "error" \/ reply.results = <<>>
       THEN /\ s_pc' = "rest"
            /\ s_warned' = TRUE
            /\ s_log' = Append(s_log, IF reply.kind = "error" THEN "mcp raised" ELSE "mcp returned")
            /\ UNCHANGED <<s_result, s_reply>>
       ELSE /\ s_pc' = "returned"
            /\ s_result' = FirstResults(reply.results, s_max)
            /\ s_reply' = reply.results
            /\ s_log' = Append(s_log, "mcp returned")
            /\ UNCHANGED s_warned
  /\ UNCHANGED <<s_mcp, s_key, s_query, s_max, s_error, pvars, gvars, nvars, jvars, cvars>>

\* asyncio.run(self._mcp_search(query, **kwargs)) inside the try of search
McpSearch ==
  /\ s_pc = "mcp"
  /\ \E reply \in ServerReplies :
       IF reply.kind = "error"
       THEN /\ s_pc' = "rest"
            /\ s_warned' = TRUE
            /\ s_log' = Append(s_log, "mcp raised")
            /\ UNCHANGED <<s_result, s_reply>>
       ELSE /\ s_pc' = "returned"
            /\ s_result' = FirstResults(reply.results, s_max)
            /\ s_reply' = reply.results
            /\ s_log' = Append(s_log, "mcp returned")
            /\ UNCHANGED s_warned
  /\ UNCHANGED <<s_mcp, s_key, s_query, s_max, s_error, pvars, gvars, nvars, jvars, cvars>>

\* return self._rest_search(query, **kwargs)
RestSearch ==
  /\ s_pc = "rest"
  /\ \E reply \in ServerReplies :
       IF ~s_key
       THEN /\ s_pc' = "raised"
            /\ s_error' = Error("RuntimeError", <<>>, "TAVILY_API_KEY")
            /\ s_log' = Append(s_log, "rest raised")
            /\ UNCHANGED <<s_result, s_reply>>
       ELSE IF reply.kind = "error"
            THEN /\ s_pc' = "raised"
                 /\ s_error' = Error("HTTPError", <<>>, "")
                 /\ s_log' = Append(s_log, "rest raised")
                 /\ UNCHANGED <<s_result, s_reply>>
            ELSE /\ s_pc' = "returned"
                 /\ s_result' = FirstResults(reply.results, s_max)
                 /\ s_reply' = reply.results
                 /\ s_log' = Append(s_log, "rest returned")
                 /\ UNCHANGED s_error
  /\ UNCHANGED <<s_mcp, s_key, s_query, s_max, s_warned, pvars, gvars, nvars, jvars, cvars>>

NextSearch == Search \/ McpSearch \/ RestSearch

SpecSearch == Init /\ [][NextSearch]_vars

(***************************************************************************)
(* gemini_verdict_from_evidence on its own.                                *)
(***************************************************************************)
ClaimIds == {"c1", "c2"}

\* gemini_verdict_from_evidence(claim, sources): generate_content is called
\* outside the try; the handler reads resp.text again for its warning
GeminiVerdictFromEvidence ==
  /\ j_pc = "idle"
  /\ \E id \in ClaimIds, reply \in VerdictReplies :
       /\ j_claim' = id
       /\ j_reply' = reply
       /\ IF reply.kind \in {"error", "blocked"}
          THEN /\ j_pc' = "raised"
               /\ UNCHANGED j_verdict
          ELSE /\ j_pc' = "returned"
               /\ j_verdict' = VerdictFromReply(id, reply)
  /\ UNCHANGED <<pvars, gvars, nvars, svars, cvars>>

NextVerdict == GeminiVerdictFromEvidence

SpecVerdict == Init /\ [][NextVerdict]_vars

(***************************************************************************)
(* run_factcheck_pipeline_from_text up to the evidence:                    *)
(* extract_claims_with_gemini, then retrieve_evidence_for_claims.          *)
(***************************************************************************)
\* claims = extract_claims_with_gemini(text, max_claims=max_claims), and
\* retrieve_evidence_for_claims(claims, ...) up to its loop
ExtractClaims ==
  /\ c_pc = "idle"
  /\ \E m \in 1..MaxClaims, reply \in ClaimsReplies :
       /\ c_max' = m
       /\ c_reply' = reply
       /\ c_claims' = extract_claims_with_gemini(reply, m)
  /\ c_pc' = "searching"
  /\ c_k' = 0
  /\ c_evidence' = NoEvidence
  /\ UNCHANGED <<pvars, gvars, nvars, svars, jvars>>

\* one turn of for claim in claims: hits = client.search(q, ...), which
\* may raise; evidence[claim.id] = hits
SearchClaim ==
  /\ c_pc = "searching"
  /\ c_k < Len(c_claims)
  /\ \E ok \in BOOLEAN :
       IF ok
       THEN /\ c_evidence' = (c_claims[c_k + 1].id :> HitsFor(c_claims[c_k + 1])) @@ c_evidence
            /\ c_k' = c_k + 1
            /\ UNCHANGED c_pc
       ELSE /\ c_pc' = "raised"
            /\ UNCHANGED <<c_k, c_evidence>>
  /\ UNCHANGED <<c_max, c_reply, c_claims, pvars, gvars, nvars, svars, jvars>>

\* return evidence
ReturnEvidence ==
  /\ c_pc = "searching"
  /\ c_k = Len(c_claims)
  /\ c_pc' = "returned"
  /\ UNCHANGED <<c_max, c_reply, c_claims, c_k, c_evidence, pvars, gvars, nvars, svars, jvars>>

NextClaims == ExtractClaims \/ SearchClaim \/ ReturnEvidence

SpecClaims == Init /\ [][NextClaims]_vars

(***************************************************************************)
(* Properties of the pipeline.                                             *)
(***************************************************************************)
RECURSIVE Only(_, _)
\* the subsequence of seq made of the members of set
Only(seq, set) ==
  IF seq = <<>> THEN <<>>
  ELSE (IF Head(seq) \in set THEN <<Head(seq)>> ELSE <<>>) \o Only(Tail(seq), set)

Occurs(seq, x) == Len(Only(seq, {x}))

IsPrefix(p, q) == Len(p) <= Len(q) /\ SubSeq(q, 1, Len(p)) = p

\* the invocation's own classification has been made
Classified(i) == Occurs(trace[i], "classify_claim") > 0

\* C1: an invocation whose classification gave is_claim = false answers
\* {status: not_a_claim, reason: the classification reason}, and calls neither
\* the search service nor the adjudication model: after classify_claim it is in
\* finalize or done.
C1_NotAClaimShortCircuits ==
  \A i \in Invocations :
    (Classified(i) /\ ~state[i].is_claim) =>
      /\ pc[i] \in {"finalize", "done"}
      /\ Only(trace[i], {"tavily.search", "tavily.search raised"}) = <<>>
      /\ Occurs(trace[i], "research_with_tavily") = 0
      /\ Occurs(trace[i], "assess_claim") = 0
      /\ \A k \in 1..Len(calls[i]) : calls[i][k].node = "classify_claim"
      /\ pc[i] = "done" =>
           response[i] = Response("not_a_claim", "", state[i].claim_reason, <<>>)

\* a not_a_claim answer given on a thread whose checkpoint held a verdict and
\* research of an earlier fact check
C1_Witness ==
  \E i \in Invocations :
    /\ pc[i] = "done"
    /\ response[i].status = "not_a_claim"
    /\ state[i].research # <<>>
    /\ "research" \notin own[i]

\* C2: an invocation whose classification gave is_claim = true and that
\* completes without error answers status fact_checked with a verdict among
\* true, false, unsubstantiated.
C2_ClaimGetsVerdict ==
  \A i \in Invocations :
    (pc[i] = "done" /\ state[i].is_claim) =>
      /\ response[i].status = "fact_checked"
      /\ response[i].verdict \in Verdicts

\* a fact check completed on a thread whose checkpoint held not_a_claim
C2_Witness ==
  \E i, j \in Invocations :
    /\ 0 < run[j] /\ run[j] < run[i] /\ thread_id[i] = thread_id[j]
    /\ pc[j] = "done" /\ response[j].status = "not_a_claim"
    /\ pc[i] = "done" /\ state[i].is_claim
    /\ response[i].verdict = "unsubstantiated"

\* the AgentStates the program holds: those of the graph runs and the
\* checkpoints
States == {state[i] : i \in Invocations} \cup {memory[t] : t \in ThreadIds}

\* C3: in every pipeline state with verdict = not_a_claim, research and
\* citations are empty or absent.
C3_NotAClaimHasNoResearch ==
  \A st \in States :
    ("verdict" \in st.keys /\ st.verdict = "not_a_claim") =>
      /\ "research" \in st.keys => st.research = <<>>
      /\ "citations" \in st.keys => st.citations = <<>>

\* C4: classify_claim of every invocation starts on a state that holds
\* input_text = text and no other key, whatever earlier invocations left
\* behind (stated for an invocation that runs while no other does).
C4_FreshStatePerInvocation ==
  \A i \in Invocations :
    (pc[i] = "classify_claim" /\ \A j \in Invocations : j # i => ~Active(j)) =>
      /\ state[i].keys = {"input_text"}
      /\ state[i].input_text = text[i]

\* C5: of two invocations in progress together, neither is handed a value
\* the other wrote, and each answers as it would alone.
C5_ConcurrentInvocationsIsolated ==
  \A i \in Invocations :
    /\ Active(i) => borrowed[i] = {}
    /\ pc[i] = "done" => response[i] = Project(alone[i])

\* the second half of C5 on its own
AnswersAsAlone ==
  \A i \in Invocations : pc[i] = "done" => response[i] = Project(alone[i])

\* the nodes that returned, without the search calls
NodeTrace(i) == Only(trace[i], Nodes)

\* C6: within an invocation the nodes run in the order classify_claim,
\* research_with_tavily (only for a claim), assess_claim, finalize, each at
\* most once, each after the one before it returned.
C6_StagesInOrder ==
  \A i \in Invocations :
    /\ \/ IsPrefix(NodeTrace(i), <<"classify_claim", "research_with_tavily",
                                  "assess_claim", "finalize">>)
       \/ NodeTrace(i) = <<"classify_claim", "finalize">>
    /\ Occurs(trace[i], "research_with_tavily") > 0 => state[i].is_claim
    /\ pc[i] = "classify_claim" => NodeTrace(i) = <<>>
    /\ pc[i] = "research_with_tavily" => NodeTrace(i) = <<"classify_claim">>
    /\ pc[i] = "assess_claim" => NodeTrace(i) = <<"classify_claim", "research_with_tavily">>
    /\ pc[i] = "finalize" => Len(NodeTrace(i)) \in {1, 3}
    /\ pc[i] = "done" => NodeTrace(i)[Len(NodeTrace(i))] = "finalize"
    /\ \A k \in 1..Len(calls[i]) :
         calls[i][k].node = "assess_claim" => Occurs(trace[i], "research_with_tavily") = 1

\* both paths of the graph run to the end
C6_Witness ==
  \E i, j \in Invocations :
    /\ pc[i] = "done" /\ Len(NodeTrace(i)) = 4
    /\ pc[j] = "done" /\ Len(NodeTrace(j)) = 2

\* the node whose gemini_json call was the last to run
LastNode(i) == calls[i][Len(calls[i])].node

\* a failed invocation stays failed: no call, no node, no response after it;
\* all its request thread does next is serve another request
FailedStays ==
  \A i \in Invocations :
    pc[i] = "failed" =>
      \/ run'[i] # run[i]
      \/ /\ pc'[i] = "failed"
         /\ calls'[i] = calls[i]
         /\ trace'[i] = trace[i]
         /\ response'[i] = NoResponse

\* what ends an invocation whose node rejected the document raw[i]
FatalValidation(i, field) ==
  /\ pc[i] = "failed"
  /\ error[i] = Error("RuntimeError", <<>>, field)
  /\ response[i] = NoResponse
  /\ calls[i][Len(calls[i])].outcome = "return"
  /\ NodeTrace(i) = IF LastNode(i) = "classify_claim" THEN <<>>
                    ELSE <<"classify_claim", "research_with_tavily">>

\* the document returned to classify_claim or assess_claim last, if it is a
\* JSON object
Returned(i, node) ==
  raw[i].kind = "object" /\ calls[i] # <<>> /\ LastNode(i) = node

\* C9 as stated: a parsed object in which is_claim is missing or no JSON
\* boolean, or verdict is missing or outside the enumeration, or explanation
\* is missing, makes the node fail; the failure ends the invocation.
C9_ContractViolationIsFatal ==
  \A i \in Invocations :
    /\ (Returned(i, "classify_claim")
          /\ ("is_claim" \notin raw[i].keys \/ raw[i].is_claim \notin {"true", "false"}))
         => FatalValidation(i, "is_claim")
    /\ (Returned(i, "assess_claim")
          /\ ("verdict" \notin raw[i].keys \/ raw[i].verdict \notin Verdicts))
         => FatalValidation(i, "verdict")
    /\ (Returned(i, "assess_claim")
          /\ "verdict" \in raw[i].keys /\ raw[i].verdict \in Verdicts
          /\ "explanation" \notin raw[i].keys)
         => FatalValidation(i, "explanation")

\* the JSON values pydantic converts to a bool
BoolLiterals ==
  {"true", "false", "1", "0", "\"yes\"", "\"no\"", "\"true\"", "\"false\""}

C9_Invariant ==
  \A i \in Invocations :
    /\ (Returned(i, "classify_claim")
          /\ ("is_claim" \notin raw[i].keys \/ raw[i].is_claim \notin BoolLiterals))
         => FatalValidation(i, "is_claim")
    /\ (Returned(i, "assess_claim")
          /\ ("verdict" \notin raw[i].keys \/ raw[i].verdict \notin Verdicts))
         => FatalValidation(i, "verdict")
    /\ (Returned(i, "assess_claim")
          /\ "verdict" \in raw[i].keys /\ raw[i].verdict \in Verdicts
          /\ "explanation" \notin raw[i].keys)
         => FatalValidation(i, "explanation")

\* C9, amended: as C9, with "is_claim is no JSON boolean" replaced by
\* "is_claim is a value pydantic does not convert to a bool"; once failed,
\* the invocation makes no call, runs no node and gives no response.
C9_UnconvertibleIsFatal == []C9_Invariant /\ [][FailedStays]_vars

\* one invocation rejected a classification, another an assessment
C9_Witness ==
  \E i, j \in Invocations :
    /\ pc[i] = "failed" /\ Returned(i, "classify_claim")
    /\ raw[i].is_claim = "\"maybe\"" /\ error[i].field = "is_claim"
    /\ pc[j] = "failed" /\ Returned(j, "assess_claim")
    /\ raw[j].verdict = "maybe" /\ error[j].field = "verdict"

C10_Invariant ==
  \A i \in Invocations :
    Occurs(trace[i], "tavily.search raised") > 0 =>
      /\ pc[i] = "failed"
      /\ error[i].kind = "SearchError"
      /\ Only(trace[i], {"tavily.search", "tavily.search raised"}) = <<"tavily.search raised">>
      /\ NodeTrace(i) = <<"classify_claim">>
      /\ \A k \in 1..Len(calls[i]) : calls[i][k].node = "classify_claim"
      /\ response[i] = NoResponse
      /\ "verdict" \notin own[i]
      /\ "research" \notin own[i]

\* C10: when the search call of research_with_tavily fails, the search is
\* not called again, assess_claim is never entered and the invocation ends
\* in failure, with no verdict and no research of its own.
C10_SearchFailureIsFatal == []C10_Invariant /\ [][FailedStays]_vars

\* a search failed on a thread whose checkpoint held an earlier verdict
C10_Witness ==
  \E i \in Invocations :
    /\ pc[i] = "failed" /\ error[i].kind = "SearchError"
    /\ "verdict" \in state[i].keys

\* C11 as stated: every error raised in a stage reaches the caller of
\* run_agent as the very error that was raised, and an invocation in which a
\* stage failed returns no response.
C11_ErrorsReachCallerUnmodified ==
  \A i \in Invocations :
    /\ raised[i] # NoError =>
         pc[i] = "failed" /\ error[i] = raised[i] /\ response[i] = NoResponse
    /\ pc[i] = "failed" => raised[i] # NoError

\* C11, amended: a ValidationError reaches the caller as a RuntimeError naming
\* the same field, every other error as the error that was raised; an
\* invocation in which a stage failed returns no response, and a response is
\* only returned by an invocation in which nothing was raised.
C11_ErrorsReachCaller ==
  \A i \in Invocations :
    /\ raised[i] # NoError =>
         /\ pc[i] = "failed"
         /\ response[i] = NoResponse
         /\ error[i] = IF raised[i].kind = "ValidationError"
                       THEN Error("RuntimeError", <<>>, raised[i].field)
                       ELSE raised[i]
    /\ pc[i] = "failed" => raised[i] # NoError
    /\ response[i] # NoResponse => pc[i] = "done" /\ raised[i] = NoError

\* one invocation failed on a validation error, another on unparseable text
C11_Witness ==
  \E i, j \in Invocations :
    /\ pc[i] = "failed" /\ raised[i].kind = "ValidationError"
    /\ error[i].kind = "RuntimeError"
    /\ pc[j] = "failed" /\ raised[j].kind = "JSONDecodeError"
    /\ error[j] = raised[j]

\* the {title, url} pairs of the research items, one per item, in order
TitleUrlPairs(research) ==
  [k \in 1..Len(research) |-> [title |-> research[k].title, url |-> research[k].url]]

\* the invocation is about to return after its own assess_claim accepted raw
Adjudicated(i) ==
  pc[i] = "finalize" /\ Returned(i, "assess_claim")

\* C12: when run_agent returns after an adjudication, the citations of its
\* response are the list the adjudication document gave if that list is not
\* empty, and otherwise (empty or missing) the {title, url} pairs of the
\* research items in research order.
C12_CitationsFallback ==
  [][\A i \in Invocations :
       (Adjudicated(i) /\ pc'[i] = "done") =>
         /\ response'[i].status = "fact_checked"
         /\ response'[i].citations =
              IF "citations" \in raw[i].keys /\ raw[i].citations # <<>>
              THEN raw[i].citations
              ELSE TitleUrlPairs(state[i].research)]_vars

\* a response whose two citations come from the two research items left
\* after de-duplication
C12_Witness ==
  \E i \in Invocations :
    /\ pc[i] = "done" /\ response[i].status = "fact_checked"
    /\ state[i].research # <<>>
    /\ Len(response[i].citations) = 2
    /\ response[i].citations = TitleUrlPairs(state[i].research)

\* C16: a classification with is_claim = false and no reason is validated
\* with reason = "", so the not_a_claim response carries reason = "", a
\* string and never null.
C16_MissingReasonDefaultsToEmpty ==
  \A i \in Invocations :
    /\ (pc[i] = "finalize" /\ Returned(i, "classify_claim")
          /\ "reason" \notin raw[i].keys /\ ~state[i].is_claim)
         => state[i].claim_reason = EmptyStr /\ state[i].explanation = EmptyStr
    /\ (pc[i] = "done" /\ response[i].status = "not_a_claim")
         => IsStr(response[i].text)

\* C17: in every fact_checked response each citation is a record with
\* exactly the fields title and url.
C17_CitationsHaveTitleAndUrlOnly ==
  \A i \in Invocations :
    (pc[i] = "done" /\ response[i].status = "fact_checked") =>
      \A k \in 1..Len(response[i].citations) :
        DOMAIN response[i].citations[k] = {"title", "url"}

\* C18: the explanation of every fact_checked response has at most 600
\* characters: an adjudication whose explanation is longer is rejected, the
\* invocation fails and gives no response.
C18_ExplanationAtMost600 ==
  \A i \in Invocations :
    /\ (pc[i] = "done" /\ response[i].status = "fact_checked")
         => IsStr(response[i].text) /\ response[i].text.len <= MaxExplanation
    /\ (Returned(i, "assess_claim") /\ "verdict" \in raw[i].keys
          /\ raw[i].verdict \in Verdicts /\ "explanation" \in raw[i].keys
          /\ raw[i].explanation.len > MaxExplanation)
         => /\ pc[i] = "failed"
            /\ raised[i] = Error("ValidationError", <<>>, "explanation")
            /\ response[i] = NoResponse

\* an adjudication with an explanation of 601 characters was rejected
C18_Witness ==
  \E i \in Invocations :
    /\ pc[i] = "failed" /\ Returned(i, "assess_claim")
    /\ raw[i].explanation.len = MaxExplanation + 1
    /\ raised[i].field = "explanation"

\* C19: the reason of every accepted classification has at most 200
\* characters, and so have the reason of every not_a_claim response and the
\* explanation stored on the short-circuit path.
C19_ReasonAtMost200 ==
  \A i \in Invocations :
    /\ (pc[i] \in {"research_with_tavily", "finalize"} /\ Returned(i, "classify_claim"))
         => state[i].claim_reason.len <= MaxReason
    /\ (pc[i] = "finalize" /\ Returned(i, "classify_claim"))
         => state[i].explanation.len <= MaxReason
    /\ (pc[i] = "done" /\ response[i].status = "not_a_claim")
         => response[i].text.len <= MaxReason

C20_Invariant ==
  \A i \in Invocations :
    /\ attempt[i] <= DefaultRetries
    /\ Len(calls[i]) <= DefaultRetries + 1
    /\ \A k \in 1..Len(calls[i]) : calls[i][k].node = LastNode(i)
    /\ Len(Only(trace[i], {"tavily.search", "tavily.search raised"})) <= 1
    /\ \A n \in Nodes : Occurs(trace[i], n) <= 1
    /\ pc[i] = "done" => response[i] # NoResponse
    /\ pc[i] = "failed" => error[i] # NoError /\ response[i] = NoResponse

\* C20: when every external call returns or fails, every invocation ends,
\* done with a response or failed; each gemini_json call of a stage makes at
\* most retries + 1 model calls, the search is called at most once, and no
\* node runs twice.
C20_InvocationTerminates ==
  /\ []C20_Invariant
  /\ \A i \in Invocations : Active(i) ~> pc[i] \in {"done", "failed"}

\* an invocation that searched once and failed on the last of the
\* retries + 1 calls of its adjudication
C20_Witness ==
  \E i \in Invocations :
    /\ pc[i] = "failed"
    /\ Len(calls[i]) = DefaultRetries + 1
    /\ LastNode(i) = "assess_claim"
    /\ Occurs(trace[i], "tavily.search") = 1

\* the keys in which the states old and new differ
Changed(old, new) ==
  {f \in Fields : (f \in old.keys) # (f \in new.keys) \/ old[f] # new[f]}

\* the keys the node at pc[i] may change on its way to the state new
MayChange(node, new) ==
  CASE node = "classify_claim" ->
         IF new.is_claim THEN {"is_claim", "claim_reason"}
         ELSE {"is_claim", "claim_reason", "verdict", "explanation"}
    [] node = "research_with_tavily" -> {"research"}
    [] node = "assess_claim" -> {"verdict", "explanation", "citations"}
    [] OTHER -> {}

\* C21: within one invocation, input_text stays what seeding made it;
\* classify_claim changes only is_claim and claim_reason (and verdict and
\* explanation when is_claim is false), research_with_tavily only research,
\* assess_claim only verdict, explanation and citations, finalize nothing.
C21_StagesChangeOnlyTheirFields ==
  [][\A i \in Invocations :
       (Active(i) /\ run'[i] = run[i]) =>
         /\ Changed(state[i], state'[i]) \subseteq MayChange(pc[i], state'[i])
         /\ state'[i].input_text = text[i]
         /\ "input_text" \in state'[i].keys]_vars

\* an invocation went through all four nodes on a thread whose checkpoint
\* held the citations of an earlier fact check
C21_Witness ==
  \E i \in Invocations :
    /\ pc[i] = "assess_claim"
    /\ NodeTrace(i) = <<"classify_claim", "research_with_tavily">>
    /\ "citations" \in state[i].keys /\ state[i].citations # <<>>
    /\ state[i].input_text = text[i]

(***************************************************************************)
(* Properties of normalize_research.                                       *)
(***************************************************************************)
\* the hits normalize_research was given
Given == OrEmpty(n_items)

\* no two items of out have the same url
UrlsDistinct(out) ==
  \A a, b \in 1..Len(out) : a # b => out[a].url # out[b].url

\* the hit has a url: the key is there and holds a str
HasUrl(r) == "url" \in r.keys /\ IsStr(r.url)

\* the first hit given that has the url u
FirstWithUrl(u) ==
  CHOOSE k \in 1..Len(Given) :
    /\ HasUrl(Given[k]) /\ Given[k].url = u
    /\ \A j \in 1..(k - 1) : ~(HasUrl(Given[j]) /\ Given[j].url = u)

UrlKey(r) ==
  IF "url" \in r.keys /\ r.url # NoneVal /\ r.url.len > 0 THEN r.url ELSE EmptyStr

\* the first hit given whose url, so read, is u
FirstWithUrlKey(u) ==
  CHOOSE k \in 1..Len(Given) :
    UrlKey(Given[k]) = u /\ \A j \in 1..(k - 1) : UrlKey(Given[j]) # u

C14_NormalizeIdempotent ==
  /\ n_pc = "again" => n_again = n_out
  /\ n_pc = "returned" => ~NormalizeRaises(n_out)

\* normalized twice: a list with a hit without title and with a content of
\* more than 600 characters, and a list with two hits of one url
C14_Witness ==
  /\ n_pc = "again"
  /\ n_again = n_out
  /\ \/ n_items = <<HitB, HitA>> /\ Len(n_out) = 2 /\ n_out[1].snippet.len = MaxSnippet
     \/ n_items = <<HitA, HitA2>> /\ Len(n_out) = 1

\* C15: normalize_research never fails: for every list, with fields absent,
\* null or of another type than str, and for an absent or empty list, it
\* returns a list of evidence items and raises nothing.
C15_NormalizeNeverFails ==
  /\ n_pc # "raised"
  /\ n_pc = "returned" =>
       \A a \in 1..Len(n_out) : n_out[a].keys = {"title", "url", "snippet"}

(***************************************************************************)
(* Properties of gemini_json.                                              *)
(***************************************************************************)
\* the k-th response was a text json.loads rejects
Rejected(k) == g_sent[k].kind = "text" /\ g_sent[k].toks \in BadTexts

\* the k-th response was a text json.loads accepts
Accepted(k) == g_sent[k].kind = "text" /\ g_sent[k].toks \in GoodTexts

C7_Invariant ==
  LET n == Len(g_sent)
  IN  /\ n <= g_retries + 1
      /\ \A k \in 1..n : g_sent[k].reminders = IF k = 1 THEN 0 ELSE 1
      /\ \A k \in 1..(n - 1) : Rejected(k)
      /\ g_pc = "loop" => n = g_attempt /\ (n > 0 => Rejected(n)) /\ n <= g_retries
      /\ g_pc = "returned" <=> (n > 0 /\ Accepted(n))
      /\ g_pc = "returned" => g_value \in {ArrayDoc, JudgeDoc("true", TRUE)}
      /\ (n >= 2 /\ Accepted(2)) => (g_pc = "returned" /\ n = 2)

\* gemini_json is over: it calls the service no more
GeminiOver ==
  g_pc \in {"returned", "raised"} => UNCHANGED <<g_pc, g_sent, g_value, g_error>>

\* C7: gemini_json with retry budget r makes at most r + 1 model calls; it
\* returns the value of the first response that parses after cleaning and
\* calls no more; a further call follows only a parse failure with retries
\* left, and sends the original prompt with one reminder appended; a
\* rejected response followed by an accepted one gives success after
\* exactly two calls.
C7_RetriesOnlyParseFailures == []C7_Invariant /\ [][GeminiOver]_vars

\* a fenced response that does not parse, then one that does
C7_Witness ==
  /\ g_pc = "returned" /\ Len(g_sent) = 2 /\ g_retries = 2
  /\ g_sent[1].toks = <<FENCE, "json", WS, "prose", FENCE, WS>>
  /\ g_sent[2].toks = <<WS, FENCE, "json", WS, DOC, WS, FENCE>>
  /\ g_value = JudgeDoc("true", TRUE)

\* every response so far was a text json.loads rejects
AllRejected == \A k \in 1..Len(g_sent) : Rejected(k)

\* C8 as stated: when all retries + 1 responses fail to parse, gemini_json
\* fails after exactly retries + 1 calls with an error that carries the raw
\* text of the response, and returns no value.
C8_ExhaustionCarriesRawText ==
  (AllRejected /\ Len(g_sent) = g_retries + 1) =>
    /\ g_pc = "raised"
    /\ g_value = NoDoc
    /\ g_error.kind = "JSONDecodeError"
    /\ g_error.doc = g_sent[Len(g_sent)].toks

\* the text of the last response without the whitespace around it, an
\* opening fence with its json tag and a closing fence
Cleaned(toks) ==
  CASE toks = <<FENCE, "json", WS, "prose", FENCE, WS>> -> <<"prose">>
    [] toks = <<FENCE, "prose", WS, DOC, WS, FENCE>> -> <<"prose", WS, DOC>>
    [] OTHER -> toks

\* C8, amended: the error carries the text of the last response as it was
\* parsed, without surrounding whitespace and fences; it is raised after
\* exactly retries + 1 calls, not before, and no value is returned.
C8_ExhaustionCarriesCleanedText ==
  /\ (AllRejected /\ Len(g_sent) = g_retries + 1) =>
       /\ g_pc = "raised"
       /\ g_value = NoDoc
       /\ g_error = Error("JSONDecodeError", Cleaned(g_sent[Len(g_sent)].toks), "")
  /\ (AllRejected /\ Len(g_sent) < g_retries + 1) => g_pc \in {"idle", "loop"}

\* three rejected responses, the last one fenced
C8_Witness ==
  /\ g_pc = "raised" /\ g_retries = 2 /\ Len(g_sent) = 3 /\ AllRejected
  /\ g_sent[3].toks = <<FENCE, "json", WS, "prose", FENCE, WS>>

C22_Invariant ==
  \A k \in 1..Len(g_sent) :
    g_sent[k].kind = "error" =>
      /\ k = Len(g_sent)
      /\ g_pc = "raised"
      /\ g_error = Error("ServiceError", <<>>, "")
      /\ g_value = NoDoc

SearchOver == s_pc \in {"returned", "raised"}

C23_Invariant ==
  /\ s_log \in {<<>>, <<"mcp returned">>, <<"mcp raised">>, <<"rest returned">>,
                 <<"rest raised">>, <<"mcp raised", "rest returned">>,
                 <<"mcp raised", "rest raised">>}
  /\ (s_pc # "idle" /\ s_mcp) => (s_log = <<>> /\ s_pc = "mcp") \/ Head(s_log) \in {"mcp returned", "mcp raised"}
  /\ (s_pc # "idle" /\ ~s_mcp) => (s_log = <<>> /\ s_pc = "rest") \/ Head(s_log) \in {"rest returned", "rest raised"}
  /\ s_log = <<"mcp returned">> =>
       s_pc = "returned" /\ s_result = FirstResults(s_reply, s_max) /\ ~s_warned
  /\ s_log = <<"mcp raised">> => s_pc = "rest" /\ s_warned /\ s_error = NoError
  /\ s_pc = "returned" =>
       /\ s_log # <<>> /\ s_log[Len(s_log)] \in {"mcp returned", "rest returned"}
       /\ s_error = NoError
       /\ Len(s_result) <= s_max
  /\ s_pc = "raised" <=> (s_log # <<>> /\ s_log[Len(s_log)] = "rest raised")
  /\ s_pc = "raised" => s_error.kind \in {"RuntimeError", "HTTPError"} /\ s_result = <<>>
  /\ s_warned <=> (s_log # <<>> /\ Head(s_log) = "mcp raised")

\* search makes no attempt once it is over
SearchOverStays == SearchOver => UNCHANGED <<s_pc, s_log, s_result, s_error>>

\* C23: search attempts MCP first when MCP is available; an MCP attempt that
\* returns, even with no results, ends the search with its results and REST
\* is not called; REST is called exactly when MCP is unavailable or the MCP
\* attempt raised; an MCP error is only logged, a REST error is raised to
\* the caller; at most one attempt of each kind is made.
C23_McpFirstRestFallback == []C23_Invariant /\ [][SearchOverStays]_vars

\* MCP answered with no results: the search returned the empty list and
\* REST was not called
C23_Witness ==
  /\ s_pc = "returned" /\ s_mcp /\ s_key
  /\ s_log = <<"mcp returned">>
  /\ s_result = <<>>

(***************************************************************************)
(* Properties of gemini_verdict_from_evidence.                             *)
(***************************************************************************)
\* an exception was raised in the try block: the text is not JSON, the JSON
\* is no object, or confidence cannot be converted by int
ParsingFailed(reply) ==
  \/ reply.kind \in {"not json", "array"}
  \/ /\ reply.kind = "object"
     /\ "confidence" \in reply.keys
     /\ ~IntConvertible(reply.confidence)

\* C24: whenever parsing of the verdict response fails (invalid JSON, or a
\* field such as confidence that cannot be converted), the Verdict returned
\* is the full default (label Uncertain, confidence 2, rationale
\* Insufficient data., no citations) with the claim's id: no field of it is
\* taken from the response.
C24_FailedParsingGivesDefault ==
  (j_pc = "returned" /\ ParsingFailed(j_reply)) => j_verdict = DefaultVerdict(j_claim)

\* what does hold: the fields read after the failing conversion are the
\* default ones, and the id is the claim's
C24_FieldsAfterFailureAreDefault ==
  (j_pc = "returned" /\ ParsingFailed(j_reply)) =>
    /\ j_verdict.claim_id = j_claim
    /\ j_verdict.confidence = DefaultConfidence
    /\ j_verdict.rationale = "Insufficient data."
    /\ j_verdict.citations = <<>>
    /\ j_reply.kind # "object" => j_verdict.label = "Uncertain"

\* a response whose confidence is a word: the label of the Verdict is the
\* one of the response
C24_LabelOfFailedResponse ==
  /\ j_pc = "returned"
  /\ j_reply.kind = "object" /\ j_reply.keys = {"label", "confidence", "rationale"}
  /\ j_reply.label = "Supported" /\ j_reply.confidence = Str("high", 4)
  /\ j_verdict = Verdict(j_claim, "Supported", DefaultConfidence, "Insufficient data.", <<>>)

(***************************************************************************)
(* Properties of extract_claims_with_gemini and                            *)
(* retrieve_evidence_for_claims.                                           *)
(***************************************************************************)
IdsDistinct(claims) ==
  \A a, b \in 1..Len(claims) : a # b => claims[a].id # claims[b].id

\* C25: the claims extract_claims_with_gemini returns have pairwise
\* distinct ids and are at most max_claims, whatever ids the raw claims
\* hold; so the evidence returned has one entry per claim, the hits found
\* for that claim.
C25_IdsDistinctOneEvidenceEach ==
  /\ c_pc # "idle" => Len(c_claims) <= c_max /\ IdsDistinct(c_claims)
  /\ c_pc = "returned" =>
       /\ Cardinality(DOMAIN c_evidence) = Len(c_claims)
       /\ \A k \in 1..Len(c_claims) : c_evidence[c_claims[k].id] = HitsFor(c_claims[k])

\* what does hold: at most max_claims claims, in the order of the raw
\* claims, and the evidence under an id is that of the last claim with it
C25_AtMostMaxClaimsLastEvidenceKept ==
  /\ c_pc # "idle" =>
       /\ Len(c_claims) <= c_max
       /\ Len(c_claims) <= Len(c_reply.claims)
       /\ \A k \in 1..Len(c_claims) : c_claims[k].text = c_reply.claims[k].text
  /\ c_pc = "returned" =>
       /\ DOMAIN c_evidence = {c_claims[k].id : k \in 1..Len(c_claims)}
       /\ \A k \in 1..Len(c_claims) :
            (\A l \in (k + 1)..Len(c_claims) : c_claims[l].id # c_claims[k].id)
              => c_evidence[c_claims[k].id] = HitsFor(c_claims[k])

\* two raw claims with the id c2: both claims returned hold it, and the
\* evidence of the first is lost
C25_TwoClaimsOneId ==
  /\ c_pc = "returned"
  /\ Len(c_claims) = 2
  /\ c_reply.claims[1].id = "c2" /\ c_reply.claims[2].id = "c2"
  /\ c_claims[1].id = "c2" /\ c_claims[2].id = "c2"
  /\ DOMAIN c_evidence = {"c2"}
  /\ c_evidence["c2"] = HitsFor(c_claims[2])

====
